---------------------------- MODULE Spec2Model ----------------------------
(***************************************************************************)
(* A model of main.py of CSharpModelGen: C# class files generated from the *)
(* sheets of an Excel workbook.  Sheets are grouped by a substring of      *)
(* their name; the fields every sheet of a group has go to a base class,   *)
(* the other fields of a sheet to a derived class named after the sheet.   *)
(*                                                                         *)
(* A cell is <<>> (pandas' NaN, an empty cell) or <<v>> with v a string.   *)
(* Sheet names and group names are sequences of one-character strings, so  *)
(* that Python's substring test is computed; cell values, type names and   *)
(* file contents are strings.                                              *)
(***************************************************************************)
EXTENDS Naturals, Sequences, FiniteSets, TLC

VARIABLES
    data_type_mapping, \* config["data_type_mapping"]
    xl,                \* the workbook: a sequence of [name, df]
    group_names,       \* the -g argument
    namespace,         \* the -n argument
    files,             \* the output directory: file name -> content
    pc,                \* where the run of generate_csharp_classes_from_excel is
    g,                 \* index in group_names of the group being processed
    group_sheets,      \* indices in xl of the sheets of the group
    dfs,               \* their dataframes, name column forward-filled
    common_fields,     \* find_common_fields(dfs)
    child,             \* index in group_sheets of the next derived class
    classes,           \* the calls of generate_class so far, in order
    started,           \* the output directory when the group g was started
    run,               \* 1 in the first run, 2 in the repeated one
    prev_files,        \* the output directory the first run left
    agg_dfs,           \* aggregate_field_data's argument dfs
    agg_field,         \* aggregate_field_data's argument field_name
    agg,               \* what aggregate_field_data returned
    property           \* what generate_csharp_property made of it

gen_vars == <<xl, group_names, namespace, files, pc, g, group_sheets, dfs,
              common_fields, child, classes, started, run, prev_files>>
field_vars == <<agg_dfs, agg_field, agg, property>>
vars == <<data_type_mapping, gen_vars, field_vars>>

---------------------------------------------------------------------------
(* Bounds *)

MaxSheets == 3      \* sheets in a workbook
MaxGroups == 2      \* group names on the command line
MaxDfs == 2         \* dataframes passed to aggregate_field_data

---------------------------------------------------------------------------
(* Cells, strings *)

NaN == <<>>
Cell(v) == <<v>>

RECURSIVE Str(_)
\* the string a sequence of characters spells
Str(s) == IF s = <<>> THEN "" ELSE Head(s) \o Str(Tail(s))

\* Python's  sub in s  on strings
Contains(s, sub) ==
    \E i \in 0..(Len(s) - Len(sub)) : SubSeq(s, i + 1, i + Len(sub)) = sub

RECURSIVE Join(_, _)
\* Python's  sep.join(seq)
Join(sep, seq) ==
    IF seq = <<>> THEN ""
    ELSE IF Len(seq) = 1 THEN seq[1]
    ELSE seq[1] \o sep \o Join(sep, Tail(seq))

Range(s) == {s[i] : i \in DOMAIN s}

---------------------------------------------------------------------------
(* Configuration *)

\* the roles of config["excel_columns"]
excel_columns == {"name", "type", "required", "description", "remarks"}

\* the mappings config["data_type_mapping"] is drawn from
DataTypeMappings ==
    { [k \in {"int"} |-> "int"],
      [k \in {"int", "string"} |-> IF k = "int" THEN "long" ELSE "String"] }

\* dict.get(key, default)
Get(mapping, key, default) ==
    IF key \in DOMAIN mapping THEN mapping[key] ELSE default

---------------------------------------------------------------------------
(* pandas *)

Row(n, t, r, d, m) ==
    [name |-> n, type |-> t, required |-> r, description |-> d, remarks |-> m]

\* df[column]
Column(df, c) == [i \in 1..Len(df.rows) |-> df.rows[i][c]]

RECURSIVE FFillTo(_, _)
\* Series.ffill: the value of cell i after the forward fill of col
FFillTo(col, i) ==
    IF col[i] # NaN THEN col[i]
    ELSE IF i = 1 THEN NaN
    ELSE FFillTo(col, i - 1)

ffill(col) == [i \in 1..Len(col) |-> FFillTo(col, i)]

\* df[excel_columns["name"]].ffill(inplace=True)
FillNames(df) ==
    LET filled == ffill(Column(df, "name"))
    IN  [df EXCEPT !.rows =
            [i \in 1..Len(df.rows) |-> [df.rows[i] EXCEPT !.name = filled[i]]]]

\* Series.dropna, the values unwrapped
dropna(col) ==
    LET kept == SelectSeq(col, LAMBDA c : c # NaN)
    IN  [i \in 1..Len(kept) |-> kept[i][1]]

RECURSIVE unique(_)
\* Series.unique: the values in order of first appearance
unique(s) ==
    IF s = <<>> THEN <<>>
    ELSE LET init == unique(SubSeq(s, 1, Len(s) - 1))
             last == s[Len(s)]
         IN  IF last \in Range(init) THEN init ELSE Append(init, last)

\* df[df[excel_columns["name"]] == field_name]; NaN equals nothing
field_data(df, field_name) ==
    [df EXCEPT !.rows =
        SelectSeq(df.rows, LAMBDA r : field_name # NaN /\ r.name = field_name)]

---------------------------------------------------------------------------
(* aggregate_field_data *)

RECURSIVE Extend(_, _, _)
\* the list the loop over dfs builds from a column by extend(...unique())
Extend(dfs_, field_name, c) ==
    IF dfs_ = <<>> THEN <<>>
    ELSE Extend(SubSeq(dfs_, 1, Len(dfs_) - 1), field_name, c)
            \o unique(dropna(Column(field_data(dfs_[Len(dfs_)], field_name), c)))

\* the set the loop over dfs builds from a column by update(...unique())
Update(dfs_, field_name, c) ==
    UNION { Range(unique(dropna(Column(field_data(dfs_[i], field_name), c))))
            : i \in 1..Len(dfs_) }

\* the values list(types)[0] can be: any element of the set, else "string"
TypeOf(types) == IF types # {} THEN types ELSE {"string"}

\* a slip: any value in the required column makes the field required
RequiredOf_AnyValue(required_values) == IF required_values # {} THEN "Y" ELSE "N"

RequiredOf(required_values) == IF "Y" \in required_values THEN "Y" ELSE "N"

\* a dataframe without one of the columns raises KeyError
KeyError(dfs_) == \E i \in 1..Len(dfs_) : ~(excel_columns \subseteq dfs_[i].columns)

\* the results aggregate_field_data(dfs, field_name) can return
aggregate_field_data(dfs_, field_name) ==
    { [type |-> t,
       required |-> RequiredOf(Update(dfs_, field_name, "required")),
       explanations |-> Extend(dfs_, field_name, "description"),
       remarks |-> Extend(dfs_, field_name, "remarks")]
      : t \in TypeOf(Update(dfs_, field_name, "type")) }

---------------------------------------------------------------------------
(* generate_csharp_property *)

\* a slip: a label the mapping lacks is kept as the C# type
CsharpType_Unmapped(mapping, type) == Get(mapping, type, type) \o "?"

\* csharp_type of generate_csharp_property
CsharpType(mapping, type) == Get(mapping, type, "string") \o "?"

\* f"{name}" of a field name; a NaN prints as nan
NameStr(name) == IF name = NaN THEN "nan" ELSE name[1]

\* the <summary> comment property_str starts with
PropertySummary(explanations, remarks, indent) ==
    LET explanation_str == Join("", explanations)
        remarks_str == Join("\n" \o indent \o "/// ", remarks)
        comment_str == IF remarks_str # ""
                       THEN explanation_str \o "\n" \o indent \o "/// " \o remarks_str
                       ELSE explanation_str
    IN  indent \o "/// <summary>\n"
        \o indent \o "/// " \o comment_str \o "\n"
        \o indent \o "/// </summary>\n"

generate_csharp_property(mapping, name, type, required, explanations, remarks, indent) ==
    PropertySummary(explanations, remarks, indent)
    \o indent \o "public " \o CsharpType(mapping, type) \o " " \o NameStr(name)
    \o " { get; set; }\n\n"

---------------------------------------------------------------------------
(* The field aggregator and the property renderer on their own *)

\* the rows of the dataframes aggregate_field_data is tried on
FieldRows ==
    { Row(Cell("Id"), Cell("int"), Cell("Y"), Cell("key"), NaN),
      Row(Cell("Id"), Cell("money"), Cell("N"), Cell("key"), Cell("unit")),
      Row(Cell("Id"), NaN, Cell("y"), Cell("count"), NaN),
      Row(Cell("Id"), Cell("int"), NaN, NaN, Cell("unit")),
      Row(Cell("Qty"), NaN, Cell("N"), Cell("count"), NaN) }

\* the dataframes: no row, one row, two rows
FieldDfs ==
    { [columns |-> excel_columns, rows |-> rows] :
        rows \in {<<>>} \cup { <<r>> : r \in FieldRows }
                        \cup { <<r1, r2>> : r1 \in FieldRows, r2 \in FieldRows } }

FieldNames == {Cell("Id"), Cell("Qty"), NaN}

Indents == {"    ", "        "}

FieldInit ==
    /\ data_type_mapping \in DataTypeMappings
    /\ agg_dfs \in UNION { [1..n -> FieldDfs] : n \in 1..MaxDfs }
    /\ agg_field \in FieldNames
    /\ agg = <<>>
    /\ property = <<>>
    /\ pc = "aggregate"
    /\ xl = <<>> /\ group_names = <<>> /\ namespace = "" /\ files = <<>>
    /\ g = 0 /\ group_sheets = <<>> /\ dfs = <<>> /\ common_fields = {}
    /\ child = 0 /\ classes = <<>> /\ started = <<>> /\ run = 0
    /\ prev_files = <<>>

\* type, required, explanations, remarks = aggregate_field_data(dfs, field_name)
Aggregate ==
    /\ pc = "aggregate"
    /\ \E a \in aggregate_field_data(agg_dfs, agg_field) : agg' = <<a>>
    /\ pc' = "property"
    /\ UNCHANGED <<data_type_mapping, xl, group_names, namespace, files, g,
                   group_sheets, dfs, common_fields, child, classes, started,
                   run, prev_files, agg_dfs, agg_field, property>>

\* generate_csharp_property(field_name, type, required, explanations, remarks, indent)
Property ==
    /\ pc = "property"
    /\ \E indent \in Indents :
         property' = <<[indent |-> indent,
                        text |-> generate_csharp_property(
                                    data_type_mapping, agg_field, agg[1].type,
                                    agg[1].required, agg[1].explanations,
                                    agg[1].remarks, indent)]>>
    /\ pc' = "rendered"
    /\ UNCHANGED <<data_type_mapping, xl, group_names, namespace, files, g,
                   group_sheets, dfs, common_fields, child, classes, started,
                   run, prev_files, agg_dfs, agg_field, agg>>

FieldNext == Aggregate \/ Property

SpecField == FieldInit /\ [][FieldNext]_vars

---------------------------------------------------------------------------
(* Properties of aggregate_field_data and generate_csharp_property *)

\* the rows of agg_dfs[i] whose name is agg_field, as indices
Matching(i) ==
    { j \in 1..Len(agg_dfs[i].rows) :
        agg_field # NaN /\ agg_dfs[i].rows[j].name = agg_field }

\* the positions <<dataframe, row>> of the rows matching agg_field
Matches == UNION { { <<i, j>> : j \in Matching(i) } : i \in 1..Len(agg_dfs) }

\* the values column c has in the rows matching agg_field, in any dataframe
MatchingValues(c) ==
    { agg_dfs[p[1]].rows[p[2]][c][1] :
        p \in { q \in Matches : agg_dfs[q[1]].rows[q[2]][c] # NaN } }

\* the first row, in the order of the dataframes and their rows, matching
\* agg_field with description v
FirstSeen(v) ==
    LET with == { p \in Matches : agg_dfs[p[1]].rows[p[2]].description = Cell(v) }
    IN  CHOOSE p \in with :
            \A q \in with : p[1] < q[1] \/ (p[1] = q[1] /\ p[2] <= q[2])

Before(p, q) == p[1] < q[1] \/ (p[1] = q[1] /\ p[2] < q[2])

\* C7: the explanations aggregate_field_data returns hold every non-empty
\* description of a row matching the field name, in first-seen order, and no
\* value twice, also when two dataframes have the same description.
C7_ExplanationsDeduplicated ==
    agg # <<>> =>
        LET e == agg[1].explanations
        IN  /\ Range(e) = MatchingValues("description")
            /\ \A i, j \in 1..Len(e) : i # j => e[i] # e[j]
            /\ \A i, j \in 1..Len(e) :
                  i < j => Before(FirstSeen(e[i]), FirstSeen(e[j]))

\* C8: the required flag is "Y" exactly when a row matching the field name,
\* in any dataframe, has the required value "Y", and "N" in every other case.
C8_RequiredResolution ==
    agg # <<>> =>
        agg[1].required =
            IF \E i \in 1..Len(agg_dfs) : \E j \in Matching(i) :
                  agg_dfs[i].rows[j].required = Cell("Y")
            THEN "Y" ELSE "N"

\* a field whose first dataframe says N and y and whose second says Y
C8_Witness ==
    /\ agg # <<>>
    /\ Len(agg_dfs) = 2
    /\ {agg_dfs[1].rows[j].required : j \in Matching(1)} = {Cell("N"), Cell("y")}
    /\ \E j \in Matching(2) : agg_dfs[2].rows[j].required = Cell("Y")
    /\ agg[1].required = "Y"

\* the declaration generate_csharp_property must end a property with
Declaration(csharp_type, indent) ==
    indent \o "public " \o csharp_type \o " " \o NameStr(agg_field)
    \o " { get; set; }\n\n"

\* C9: the type in the property declaration is the configured type of the
\* label followed by "?" when the label is a key of data_type_mapping and
\* "string?" otherwise; the label of a field without a type value is "string".
C9_RenderedType ==
    property # <<>> =>
        LET label == agg[1].type
            target == IF label \in DOMAIN data_type_mapping
                      THEN data_type_mapping[label] ELSE "string"
        IN  /\ label \in MatchingValues("type")
                \/ (MatchingValues("type") = {} /\ label = "string")
            /\ property[1].text =
                 PropertySummary(agg[1].explanations, agg[1].remarks,
                                 property[1].indent)
                 \o Declaration(target \o "?", property[1].indent)

\* a field without a type value, rendered with the type configured for the
\* label string
C9_Witness ==
    /\ property # <<>>
    /\ Matches # {}
    /\ MatchingValues("type") = {}
    /\ "string" \in DOMAIN data_type_mapping
    /\ \E indent \in Indents :
         property[1].text =
            PropertySummary(agg[1].explanations, agg[1].remarks, indent)
            \o Declaration("String?", indent)

---------------------------------------------------------------------------
(* find_common_fields, the field sets, generate_class, write_class_to_file *)

\* set(df[excel_columns["name"]].dropna())
NameSet(df) == { Cell(v) : v \in Range(dropna(Column(df, "name"))) }

\* how many NaN the set set(df[excel_columns["name"]]) holds: the NaN cells of
\* a column with names are one object, those of an all-empty (float) column
\* are an object each, and no NaN equals another
NaNCount(df) ==
    LET col == Column(df, "name")
    IN  IF \A i \in 1..Len(col) : col[i] = NaN THEN Len(col)
        ELSE IF \E i \in 1..Len(col) : col[i] = NaN THEN 1
        ELSE 0

\* a slip: the loop over dfs[1:] is left out
find_common_fields_First(dfs_) == NameSet(dfs_[1])

RECURSIVE find_common_fields(_)
find_common_fields(dfs_) ==
    IF Len(dfs_) = 1 THEN NameSet(dfs_[1])
    ELSE find_common_fields(SubSeq(dfs_, 1, Len(dfs_) - 1)) \cap NameSet(dfs_[Len(dfs_)])

\* a slip: the common fields are not taken out
unique_fields_All(df, common) ==
    [names |-> NameSet(df), nans |-> NaNCount(df)]

\* set(df[excel_columns["name"]]) - common_fields: the names, and the NaNs
unique_fields(df, common) ==
    [names |-> NameSet(df) \ common, nans |-> NaNCount(df)]

\* the orders in which  for field_name in fields  can go through the set
Orders(fields) ==
    LET n == Cardinality(fields.names) + fields.nans
    IN  { o \in [1..n -> fields.names \cup {NaN}] :
            /\ \A f \in fields.names : Cardinality({i \in 1..n : o[i] = f}) = 1
            /\ Cardinality({i \in 1..n : o[i] = NaN}) = fields.nans }

RECURSIVE Properties(_, _, _, _)
\* the texts the loop of generate_class can add for the fields, in this order
Properties(mapping, order, dfs_, indent) ==
    IF order = <<>> THEN {""}
    ELSE { generate_csharp_property(mapping, order[1], a.type, a.required,
                                    a.explanations, a.remarks, indent) \o rest :
             a \in aggregate_field_data(dfs_, order[1]),
             rest \in Properties(mapping, Tail(order), dfs_, indent) }

\* the texts generate_class can return; base_class_name "" is None
generate_class(mapping, ns, class_name, order, dfs_, base_class_name) ==
    LET indent == IF ns # "" THEN "    " ELSE ""
        opening == IF ns # "" THEN "namespace " \o ns \o "\n{\n" ELSE ""
        declaration ==
            IF base_class_name # ""
            THEN indent \o "public class " \o class_name \o " : " \o base_class_name \o "\n"
            ELSE indent \o "public class " \o class_name \o "\n"
        closing == indent \o "}\n" \o (IF ns # "" THEN "}\n" ELSE "")
    IN  { opening \o declaration \o indent \o "{\n" \o body \o closing :
            body \in Properties(mapping, order, dfs_, indent \o "    ") }

\* the file write_class_to_file opens
FileName(class_name) == class_name \o ".cs"

\* the output directory after write_class_to_file(class_name, class_str, output_dir)
write_class_to_file(dir, class_name, class_str) ==
    [f \in DOMAIN dir \cup {FileName(class_name)} |->
        IF f = FileName(class_name) THEN class_str ELSE dir[f]]

---------------------------------------------------------------------------
(* The workbooks and command lines of the runs *)

GroupNames == { <<"A">>, <<"B">> }

\* the sheet names, in the order the workbook has them
SheetNames ==
    << <<"A", "1">>, <<"A", "B">>, <<"B", "a", "s", "e", "A">>, <<"A", "2">> >>

\* the default of the -n argument
DefaultNamespace == "Models"

AllBut(c) == excel_columns \ {c}

\* the sheets' contents
GenDfs ==
    { [columns |-> excel_columns,
       rows |-> << Row(Cell("Id"), Cell("int"), Cell("Y"), Cell("key"), NaN),
                   Row(Cell("Qty"), NaN, Cell("N"), NaN, Cell("unit")) >>],
      \* a merged name cell: the second row belongs to Id
      [columns |-> excel_columns,
       rows |-> << Row(Cell("Id"), Cell("int"), Cell("Y"), Cell("key"), NaN),
                   Row(NaN, Cell("money"), NaN, Cell("part"), NaN) >>],
      \* the name column starts with an empty cell
      [columns |-> excel_columns,
       rows |-> << Row(NaN, NaN, NaN, Cell("title"), NaN),
                   Row(Cell("Id"), Cell("int"), NaN, NaN, NaN) >>],
      \* a sheet without the type column
      [columns |-> AllBut("type"),
       rows |-> << Row(Cell("Qty"), NaN, Cell("Y"), NaN, NaN) >>],
      \* a sheet without the name column
      [columns |-> AllBut("name"),
       rows |-> << Row(NaN, Cell("int"), NaN, NaN, NaN) >>] }

\* the strictly increasing sequences of n indices of SheetNames
Picks(n) ==
    { p \in [1..n -> 1..Len(SheetNames)] : \A i \in 1..(n - 1) : p[i] < p[i + 1] }

Workbooks ==
    UNION { { [i \in 1..n |-> [name |-> SheetNames[p[i]], df |-> d[i]]] :
                p \in Picks(n), d \in [1..n -> GenDfs] }
            : n \in 1..MaxSheets }

Init ==
    /\ data_type_mapping = [k \in {"int"} |-> "int"]
    /\ xl \in Workbooks
    /\ group_names \in UNION { [1..n -> GroupNames] : n \in 1..MaxGroups }
    /\ namespace = DefaultNamespace
    /\ files = <<>>
    /\ pc = "group"
    /\ g = 1
    /\ group_sheets = <<>>
    /\ dfs = <<>>
    /\ common_fields = {}
    /\ child = 0
    /\ classes = <<>>
    /\ started = <<>>
    /\ run = 1
    /\ prev_files = <<>>
    /\ agg_dfs = <<>> /\ agg_field = NaN /\ agg = <<>> /\ property = <<>>

---------------------------------------------------------------------------
(* generate_csharp_classes_from_excel *)

\* [sheet for sheet in xl.sheet_names if group_name in sheet], as indices in xl
SheetsOf(book, group_name) ==
    LET idx == [i \in 1..Len(book) |-> i]
    IN  SelectSeq(idx, LAMBDA i : Contains(book[i].name, group_name))

base_class_name(group_name) == "Base" \o Str(group_name)

\* one generate_class call: the group, the sheet (0: the base class), the
\* names, the fields in the order of the loop, the text
ClassRecord(k, sheet, class_name, base, order, text) ==
    [group |-> k, sheet |-> sheet, class_name |-> class_name, base |-> base,
     fields |-> order, text |-> text]

\* the top of the loop body: the sheets of the group, the forward fill, the
\* common fields.  A sheet without the name column and a group without
\* sheets raise.
StartGroup ==
    /\ pc = "group"
    /\ LET sheets == SheetsOf(xl, group_names[g])
           parsed == [i \in 1..Len(sheets) |-> xl[sheets[i]].df]
       IN  IF \/ \E i \in 1..Len(parsed) : "name" \notin parsed[i].columns
              \/ parsed = <<>>
           THEN /\ pc' = "failed"
                /\ UNCHANGED <<group_sheets, dfs, common_fields>>
           ELSE /\ group_sheets' = sheets
                /\ dfs' = [i \in 1..Len(parsed) |-> FillNames(parsed[i])]
                /\ common_fields' = find_common_fields(dfs')
                /\ pc' = "base"
    /\ started' = files
    /\ UNCHANGED <<data_type_mapping, xl, group_names, namespace, files, g, child,
                   classes, run, prev_files, field_vars>>

\* the base class of the group, from the first sheet, and its file
BaseClass ==
    /\ pc = "base"
    /\ LET name == base_class_name(group_names[g])
           fields == [names |-> common_fields, nans |-> 0]
       IN  IF fields.names # {} /\ KeyError(<<dfs[1]>>)
           THEN /\ pc' = "failed"
                /\ UNCHANGED <<files, classes, child>>
           ELSE \E order \in Orders(fields) :
                \E text \in generate_class(data_type_mapping, namespace, name,
                                           order, <<dfs[1]>>, "") :
                    /\ files' = write_class_to_file(files, name, text)
                    /\ classes' = Append(classes,
                                         ClassRecord(g, 0, name, "", order, text))
                    /\ child' = 1
                    /\ pc' = "child"
    /\ UNCHANGED <<data_type_mapping, xl, group_names, namespace, g, group_sheets,
                   dfs, common_fields, started, run, prev_files, field_vars>>

\* the derived class of the next sheet of the group and its file; after the
\* last sheet the loop goes on to the next group, or the run is over
ChildClass ==
    /\ pc = "child"
    /\ LET df == dfs[child]
           name == Str(xl[group_sheets[child]].name)
           base == base_class_name(group_names[g])
           fields == unique_fields(df, common_fields)
           last == child = Len(group_sheets)
       IN  IF fields.names # {} /\ KeyError(<<df>>)
           THEN /\ pc' = "failed"
                /\ UNCHANGED <<files, classes, child, g>>
           ELSE \E order \in Orders(fields) :
                \E text \in generate_class(data_type_mapping, namespace, name,
                                           order, <<df>>, base) :
                    /\ files' = write_class_to_file(files, name, text)
                    /\ classes' = Append(classes,
                                         ClassRecord(g, group_sheets[child], name,
                                                     base, order, text))
                    /\ child' = IF last THEN 0 ELSE child + 1
                    /\ g' = IF last THEN g + 1 ELSE g
                    /\ pc' = IF ~last THEN "child"
                             ELSE IF g = Len(group_names) THEN "done"
                             ELSE "group"
    /\ UNCHANGED <<data_type_mapping, xl, group_names, namespace, group_sheets,
                   dfs, common_fields, started, run, prev_files, field_vars>>

Next == StartGroup \/ BaseClass \/ ChildClass

Spec == Init /\ [][Next]_vars

\* the same command once more, into an empty output directory
Rerun ==
    /\ pc = "done"
    /\ run = 1
    /\ prev_files' = files
    /\ files' = <<>>
    /\ classes' = <<>>
    /\ run' = 2
    /\ g' = 1
    /\ pc' = "group"
    /\ UNCHANGED <<data_type_mapping, xl, group_names, namespace, group_sheets,
                   dfs, common_fields, child, started, field_vars>>

NextTwice == Next \/ Rerun

SpecTwice == Init /\ [][NextTwice]_vars

---------------------------------------------------------------------------
(* Properties of the generated classes and files *)

\* the sheets of the workbook whose name contains the k-th group name
GroupSheets(k) == { i \in 1..Len(xl) : Contains(xl[i].name, group_names[k]) }

\* the field names in the name column of sheet i of the workbook
FieldNamesOf(i) ==
    { xl[i].df.rows[j].name[1] :
        j \in { r \in 1..Len(xl[i].df.rows) : xl[i].df.rows[r].name # NaN } }

\* the field names of any sheet of the k-th group, and those of every sheet
AllNames(k) == UNION { FieldNamesOf(i) : i \in GroupSheets(k) }
SharedNames(k) == { n \in AllNames(k) : \A i \in GroupSheets(k) : n \in FieldNamesOf(i) }

\* the classes generated for the k-th group: the base classes, the derived
BaseClasses(k) ==
    { c \in 1..Len(classes) : classes[c].group = k /\ classes[c].sheet = 0 }
DerivedClasses(k) ==
    { c \in 1..Len(classes) : classes[c].group = k /\ classes[c].sheet # 0 }

\* how many properties of class c are named n
Rendered(c, n) ==
    Cardinality({ i \in 1..Len(classes[c].fields) : classes[c].fields[i] = Cell(n) })

\* the names of the properties of class c, as written to the file
RenderedNames(c) ==
    { NameStr(classes[c].fields[i]) : i \in 1..Len(classes[c].fields) }

Groups == 1..Len(group_names)

\* C1: a field name in the name column of every sheet of a group is rendered
\* exactly once in the base class of the group and in no derived class of it.
C1_CommonInBaseOnly ==
    \A k \in Groups :
        /\ DerivedClasses(k) # {} => Cardinality(BaseClasses(k)) = 1
        /\ \A n \in SharedNames(k) :
              /\ \A c \in BaseClasses(k) : Rendered(c, n) = 1
              /\ \A c \in DerivedClasses(k) : Rendered(c, n) = 0

\* a finished run with a group of two sheets or more, a shared field and a
\* derived class with a field of its own
C1_Witness ==
    /\ pc = "done"
    /\ \E k \in Groups :
          /\ Cardinality(GroupSheets(k)) >= 2
          /\ SharedNames(k) # {}
          /\ \E c \in DerivedClasses(k) : classes[c].fields # <<>>
          /\ \E c \in BaseClasses(k) : classes[c].fields # <<>>

\* C2: the names rendered in the base class and the derived classes of a
\* group are the field names of the sheets of the group, no more and no less.
C2_RenderedIsUnion ==
    pc = "done" =>
        \A k \in Groups :
            UNION { RenderedNames(c) : c \in BaseClasses(k) \cup DerivedClasses(k) }
                = AllNames(k)

\* C3: a field name that not every sheet of the group has is rendered in
\* exactly one derived class of the group.
C3_UniqueInOneDerived ==
    pc = "done" =>
        \A k \in Groups : \A n \in AllNames(k) \ SharedNames(k) :
            Cardinality({ c \in DerivedClasses(k) : Rendered(c, n) >= 1 }) = 1

\* C3, amended: a field name that not every sheet of the group has is
\* rendered exactly once in the derived class of each sheet that has it, and
\* in no other class of the group; a finished run has one derived class for
\* each sheet of each group.
C3_UniqueInItsSheets ==
    /\ \A k \in Groups : \A n \in AllNames(k) \ SharedNames(k) :
          /\ \A c \in BaseClasses(k) : Rendered(c, n) = 0
          /\ \A c \in DerivedClasses(k) :
                Rendered(c, n) = IF n \in FieldNamesOf(classes[c].sheet) THEN 1 ELSE 0
    /\ pc = "done" =>
          \A k \in Groups : \A i \in GroupSheets(k) :
              Cardinality({ c \in DerivedClasses(k) : classes[c].sheet = i }) = 1

\* a finished run with a group of three sheets and a field that two of them have
C3_Witness ==
    /\ pc = "done"
    /\ \E k \in Groups : \E n \in AllNames(k) :
          /\ Cardinality(GroupSheets(k)) = 3
          /\ Cardinality({ i \in GroupSheets(k) : n \in FieldNamesOf(i) }) = 2
          /\ Cardinality({ c \in DerivedClasses(k) : Rendered(c, n) = 1 }) = 2

\* C4: the second run of the same command into an empty output directory
\* leaves the files of the first run, with the same contents.
C4_SameFilesTwice ==
    (run = 2 /\ pc = "done") => files = prev_files

\* C5: when the processing of a group fails, the files written for the
\* groups before it are on disk as they were written, and nothing is
\* generated for a group after it.
C5_EarlierFilesKept ==
    pc = "failed" =>
        /\ \A f \in DOMAIN started : f \in DOMAIN files /\ files[f] = started[f]
        /\ \A c \in 1..Len(classes) : classes[c].group <= g

\* C6: after a complete run every generated class has its file, holding that
\* class, and every file holds a class of its own: no write of the run
\* replaced a file written earlier in it.
C6_OneFilePerClass ==
    pc = "done" =>
        /\ Cardinality(DOMAIN files) = Len(classes)
        /\ \A c \in 1..Len(classes) :
              /\ FileName(classes[c].class_name) \in DOMAIN files
              /\ files[FileName(classes[c].class_name)] = classes[c].text

\* C10: no generated class has a property whose field name is an empty
\* (NaN) cell of the name column.
C10_NoNaNField ==
    \A c \in 1..Len(classes) :
        \A i \in 1..Len(classes[c].fields) : classes[c].fields[i] # NaN

====
